---- MODULE Spec2Model ----
(***************************************************************************)
(* A model of gpsgridder (src/src/potential/gpsgridder.c): option parsing, *)
(* ingestion with duplicate detection, normalization, assembly of the      *)
(* 2n x 2n Green's-function system, the two solvers, the eigenvalue        *)
(* diagnostics and the evaluation of the field at the output locations.    *)
(*                                                                         *)
(* A C double is modelled by an exact rational <<num, den>> with den > 0   *)
(* and gcd(num, den) = 1, so that two doubles are equal exactly when their *)
(* models are the same tuple.  Results that C makes non-finite (x/0,       *)
(* log of a non-positive number) are modelled by the value NaN.            *)
(***************************************************************************)
EXTENDS Integers, Sequences, FiniteSets, TLC

(***************************************************************************)
(* Bounds of the model.                                                    *)
(***************************************************************************)
\* The largest number of input records of a run.
MaxRecords == 3
\* The largest number of observations handed to the normalization round trip.
MaxNormObs == 4

(***************************************************************************)
(* Program constants.                                                      *)
(***************************************************************************)
GPS_TREND == 1
GPS_NORM == 2

(***************************************************************************)
(* Arithmetic on doubles.  A double is the pair <<num, den>> of an exact   *)
(* fraction in lowest terms with den > 0; <<0, 0>> is a value that is not  *)
(* finite (NaN or an infinity).                                            *)
(***************************************************************************)
Abs(a) == IF a < 0 THEN -a ELSE a

RECURSIVE GCD(_, _)
GCD(a, b) == IF b = 0 THEN a ELSE GCD(b, a % b)

Sign(d) == IF d < 0 THEN -1 ELSE 1
Reduce(n, d, g) == <<(Sign(d) * n) \div g, (Sign(d) * d) \div g>>

\* The double n/d, d # 0, in lowest terms.
Rat(n, d) == Reduce(n, d, GCD(Abs(n), Abs(d)))

Zero == <<0, 1>>
One == <<1, 1>>
NaN == <<0, 0>>

IsNaN(a) == a[2] = 0

\* a + b and a * b, reduced before the products are formed.
AddOver(a, b, g) == Rat(a[1] * (b[2] \div g) + b[1] * (a[2] \div g), (a[2] \div g) * b[2])
RAdd(a, b) == IF IsNaN(a) \/ IsNaN(b) THEN NaN ELSE AddOver(a, b, GCD(a[2], b[2]))
RNeg(a) == <<-a[1], a[2]>>
RSub(a, b) == RAdd(a, RNeg(b))
MulOver(a, b, g1, g2) == Rat((a[1] \div g1) * (b[1] \div g2), (a[2] \div g2) * (b[2] \div g1))
RMul(a, b) ==
    IF IsNaN(a) \/ IsNaN(b) THEN NaN
    ELSE MulOver(a, b, GCD(Abs(a[1]), b[2]), GCD(Abs(b[1]), a[2]))
RDiv(a, b) ==
    IF IsNaN(a) \/ IsNaN(b) \/ b[1] = 0 THEN NaN
    ELSE RMul(a, IF b[1] < 0 THEN <<-b[2], -b[1]>> ELSE <<b[2], b[1]>>)
RLt(a, b) == ~IsNaN(a) /\ ~IsNaN(b) /\ a[1] * b[2] < b[1] * a[2]
RAbs(a) == <<Abs(a[1]), a[2]>>
RMax(a, b) == IF RLt(a, b) THEN b ELSE a
RMin(a, b) == IF RLt(b, a) THEN b ELSE a
RInt(k) == <<k, 1>>

\* DBL_MAX: a double above every value the inputs of the model produce.
DBL_MAX == <<1000000, 1>>
NegDBL_MAX == <<-1000000, 1>>

(***************************************************************************)
(* do_gps_normalization and undo_gps_normalization.  The observations are  *)
(* sequences X (records with fields x, y and, under -W, wu, wv), u and v;  *)
(* coeff is a record with the ten normalization coefficients.              *)
(***************************************************************************)
RECURSIVE SumSeq(_, _)
SumSeq(f, k) == IF k = 0 THEN Zero ELSE RAdd(SumSeq(f, k - 1), f[k])

HasBit(mode, bit) == (mode \div bit) % 2 = 1

\* umin, vmin and umax, vmax of the loop at lines 356-368.
RECURSIVE MinSeq(_, _, _)
MinSeq(f, k, start) == IF k = 0 THEN start ELSE RMin(MinSeq(f, k - 1, start), f[k])

RECURSIVE MaxSeq(_, _, _)
MaxSeq(f, k, start) == IF k = 0 THEN start ELSE RMax(MaxSeq(f, k - 1, start), f[k])

ZeroCoeff ==
    [mean_x |-> Zero, mean_y |-> Zero, mean_u |-> Zero, mean_v |-> Zero,
     slp_ux |-> Zero, slp_uy |-> Zero, slp_vx |-> Zero, slp_vy |-> Zero,
     range_u |-> Zero, range_v |-> Zero]

Mean(f, n) == RDiv(SumSeq(f, n), RInt(n))
XOf(X, n) == [i \in 1..n |-> X[i].x]
YOf(X, n) == [i \in 1..n |-> X[i].y]

\* The means (lines 314-329): mean_u, mean_v always, mean_x, mean_y under GPS_TREND.
NormMeans(X, u, v, n, mode) ==
    [ZeroCoeff EXCEPT
        !.mean_u = Mean(u, n),
        !.mean_v = Mean(v, n),
        !.mean_x = IF HasBit(mode, GPS_TREND) THEN Mean(XOf(X, n), n) ELSE Zero,
        !.mean_y = IF HasBit(mode, GPS_TREND) THEN Mean(YOf(X, n), n) ELSE Zero]

\* The deviations from a mean, and the sums of their products (lines 330-343).
Deviations(f, n, mean) == [i \in 1..n |-> RSub(f[i], mean)]
SumProducts(a, b, n) == SumSeq([i \in 1..n |-> RMul(a[i], b[i])], n)

\* The slopes divided by d without the test of d.
SlopesOver_Unguarded(c0, sxx, sxy, sxu, sxv, syy, syu, syv, d) ==
    [c0 EXCEPT
        !.slp_ux = RDiv(RSub(RMul(sxu, syy), RMul(sxy, syu)), d),
        !.slp_uy = RDiv(RSub(RMul(sxx, syu), RMul(sxy, sxu)), d),
        !.slp_vx = RDiv(RSub(RMul(sxv, syy), RMul(sxy, syv)), d),
        !.slp_vy = RDiv(RSub(RMul(sxx, syv), RMul(sxy, sxv)), d)]

\* Lines 345-351: the slopes stay zero when d = 0.
SlopesOver(c0, sxx, sxy, sxu, sxv, syy, syu, syv, d) ==
    IF d = Zero THEN c0
    ELSE [c0 EXCEPT
            !.slp_ux = RDiv(RSub(RMul(sxu, syy), RMul(sxy, syu)), d),
            !.slp_uy = RDiv(RSub(RMul(sxx, syu), RMul(sxy, sxu)), d),
            !.slp_vx = RDiv(RSub(RMul(sxv, syy), RMul(sxy, syv)), d),
            !.slp_vy = RDiv(RSub(RMul(sxx, syv), RMul(sxy, sxv)), d)]

Slopes(c0, sxx, sxy, sxu, sxv, syy, syu, syv) ==
    SlopesOver(c0, sxx, sxy, sxu, sxv, syy, syu, syv, RSub(RMul(sxx, syy), RMul(sxy, sxy)))

FitPlane(c0, xx, yy, uu, vv, n) ==
    Slopes(c0, SumProducts(xx, xx, n), SumProducts(xx, yy, n), SumProducts(xx, uu, n),
           SumProducts(xx, vv, n), SumProducts(yy, yy, n), SumProducts(yy, uu, n),
           SumProducts(yy, vv, n))

\* The least-squares plane (lines 325-352).
NormSlopes(X, u, v, n, mode, c0) ==
    IF ~HasBit(mode, GPS_TREND) THEN c0
    ELSE FitPlane(c0, Deviations(XOf(X, n), n, c0.mean_x), Deviations(YOf(X, n), n, c0.mean_y),
                  Deviations(u, n, c0.mean_u), Deviations(v, n, c0.mean_v), n)

\* The plane of component "u" or "v" at (x, y), relative to the mean location.
Plane(c, comp, x, y) ==
    IF comp = "u"
    THEN RAdd(RMul(c.slp_ux, RSub(x, c.mean_x)), RMul(c.slp_uy, RSub(y, c.mean_y)))
    ELSE RAdd(RMul(c.slp_vx, RSub(x, c.mean_x)), RMul(c.slp_vy, RSub(y, c.mean_y)))

\* The residuals after removing the mean and, under GPS_TREND, the plane (lines 357-362).
Detrend(X, w, n, mode, c, comp) ==
    [i \in 1..n |->
        RSub(RSub(w[i], IF comp = "u" THEN c.mean_u ELSE c.mean_v),
             IF HasBit(mode, GPS_TREND) THEN Plane(c, comp, X[i].x, X[i].y) ELSE Zero)]

\* MAX (fabs(umin), fabs(umax)) of the residuals (lines 364-372).
RangeOf(w, n) == RMax(RAbs(MinSeq(w, n, DBL_MAX)), RAbs(MaxSeq(w, n, NegDBL_MAX)))

\* Lines 373-378: u[i] *= du with du = 1 for a zero range.
Scale(w, n, range) ==
    [i \in 1..n |-> RMul(w[i], IF range = Zero THEN One ELSE RDiv(One, range))]

NormRanges(c1, u1, v1, n, norm) ==
    IF norm THEN [c1 EXCEPT !.range_u = RangeOf(u1, n), !.range_v = RangeOf(v1, n)] ELSE c1

NormResult(u1, v1, c2, n, norm) ==
    [u |-> IF norm THEN Scale(u1, n, c2.range_u) ELSE u1,
     v |-> IF norm THEN Scale(v1, n, c2.range_v) ELSE v1,
     coeff |-> c2]

NormResiduals(u1, v1, c1, n, norm) ==
    NormResult(u1, v1, NormRanges(c1, u1, v1, n, norm), n, norm)

NormWith(X, u, v, n, mode, c1) ==
    NormResiduals(Detrend(X, u, n, mode, c1, "u"), Detrend(X, v, n, mode, c1, "v"), c1, n,
                  HasBit(mode, GPS_NORM))

\* The normalized u and v and the coefficients.
do_gps_normalization(X, u, v, n, mode) ==
    NormWith(X, u, v, n, mode, NormSlopes(X, u, v, n, mode, NormMeans(X, u, v, n, mode)))

\* As the code does: scale by the ranges first, then add the means, then the plane.
Restore(w, mode, range, mean, plane) ==
    RAdd(RAdd(IF HasBit(mode, GPS_NORM) THEN RMul(w, range) ELSE w, mean),
         IF HasBit(mode, GPS_TREND) THEN plane ELSE Zero)

\* undo_gps_normalization with the mean added before the scaling by the range.
RestoreMeanFirst(w, mode, range, mean, plane) ==
    RAdd(IF HasBit(mode, GPS_NORM) THEN RMul(RAdd(w, mean), range) ELSE RAdd(w, mean),
         IF HasBit(mode, GPS_TREND) THEN plane ELSE Zero)

undo_MeanFirst(P, mode, c) ==
    [x |-> P.x, y |-> P.y,
     u |-> RestoreMeanFirst(P.u, mode, c.range_u, c.mean_u, Plane(c, "u", P.x, P.y)),
     v |-> RestoreMeanFirst(P.v, mode, c.range_v, c.mean_v, Plane(c, "v", P.x, P.y))]

undo_gps_normalization(P, mode, c) ==
    [x |-> P.x, y |-> P.y,
     u |-> Restore(P.u, mode, c.range_u, c.mean_u, Plane(c, "u", P.x, P.y)),
     v |-> Restore(P.v, mode, c.range_v, c.mean_v, Plane(c, "v", P.x, P.y))]

(***************************************************************************)
(* The state of a run.                                                     *)
(***************************************************************************)
VARIABLES
    pc,            \* the position of GMT_gpsgridder
    ret,           \* its return code, "running" until it returns
    cmd,           \* the options of the command line
    input,         \* the records of the input table not read yet
    mask,          \* the nodes of the -T mask grid: 0 or NaN each
    nthreads,      \* the threads of the lattice loop (1 without OpenMP)
    Ctrl,          \* struct GPSGRIDDER_CTRL, with GMT->common.R.active as R_active
    X, u, v,       \* the retained observations; X[n+1] is scratch
    n, n_read, n_skip, n_duplicates, n_alloc,
    r_min, r_max,
    normalize, norm, par,
    A, obs,        \* the linear system; obs holds the coefficients after the solve
    s,             \* the singular values of A
    E,             \* the records written to the eigenvalue file
    Out,           \* the two output grids, node -> [u, v]
    written,       \* the output written: grids or point records
    G,             \* the Green's function triple of GMT_gpsgridder, shared by the threads
    thr,           \* per thread: its private V, row, col, p and its position
    back,          \* the observations restored by undo_gps_normalization
    warned         \* the warning of lines 798-799 has been reported

vars == <<pc, ret, cmd, input, mask, nthreads, Ctrl, X, u, v, n, n_read, n_skip,
          n_duplicates, n_alloc, r_min, r_max, normalize, norm, par, A, obs, s, E,
          Out, written, G, thr, back, warned>>

(***************************************************************************)
(* New_Ctrl and parse.  An option of the command line is a record with a   *)
(* field given; a file name is a string, "NULL" for the null pointer.      *)
(***************************************************************************)
New_Ctrl ==
    [C_active |-> FALSE, C_mode |-> 0, C_value |-> Zero, C_file |-> "NULL",
     F_active |-> FALSE, F_mode |-> 0, F_fudge |-> <<1, 100>>,
     G_active |-> FALSE, G_file |-> "NULL",
     I_active |-> FALSE, L_active |-> FALSE,
     N_active |-> FALSE, N_file |-> "NULL",
     S_nu |-> <<1, 4>>,
     T_active |-> FALSE, T_file |-> "NULL",
     W_active |-> FALSE, W_mode |-> 0,
     R_active |-> FALSE]

\* case 'C' (lines 198-210): arg is [n|v]<cutoff>[/<file>].
ParseC(c, o) ==
    IF ~o.given THEN c
    ELSE [c EXCEPT !.C_active = TRUE,
                   !.C_mode = IF o.mode = "v" THEN 1 ELSE IF o.mode = "n" THEN 2 ELSE c.C_mode,
                   !.C_value = o.value,
                   !.C_file = o.file]

\* case 'F' (lines 211-225): -Fd<del_radius>, -Ff<factor>, anything else is an error.
ParseF(c, o) ==
    IF ~o.given THEN c
    ELSE IF o.kind = "d" THEN [c EXCEPT !.F_active = TRUE, !.F_mode = 1, !.F_fudge = o.value]
    ELSE IF o.kind = "f" THEN [c EXCEPT !.F_active = TRUE, !.F_mode = 2, !.F_fudge = o.value]
    ELSE [c EXCEPT !.F_active = TRUE]

\* cases 'G', 'I', 'L', 'N', 'S' (lines 226-248); -R is a common option.
ParseGILNS(c, o) ==
    [c EXCEPT !.G_active = (o.G # "NULL"), !.G_file = o.G,
              !.I_active = o.I,
              !.L_active = o.L,
              !.N_active = (o.N # "NULL"), !.N_file = o.N,
              !.S_nu = IF o.S.given THEN o.S.value ELSE c.S_nu,
              !.R_active = o.R]

\* case 'T' (lines 249-266): the header of the mask sets -R and the increments,
\* but not I.active.
ParseT(c, o) ==
    IF o.T = "NULL" THEN c
    ELSE [c EXCEPT !.T_active = TRUE, !.T_file = o.T, !.R_active = TRUE]

\* case 'W' (lines 267-269): the argument is not looked at.
ParseW(c, o) ==
    IF ~o.W.given THEN c ELSE [c EXCEPT !.W_active = TRUE]

ParseOptions(o) == ParseW(ParseT(ParseGILNS(ParseF(ParseC(New_Ctrl, o.C), o.F), o), o), o)

B2N(b) == IF b THEN 1 ELSE 0

\* The errors counted by parse (lines 222-223 and 276-284).
ParseErrors(c, o) ==
      B2N(o.F.given /\ o.F.kind \notin {"d", "f"})
    + B2N(~(c.R_active \/ c.N_active \/ c.T_active))
    + B2N(c.C_active /\ RLt(c.C_value, Zero) /\ c.C_file = "NULL")
    + B2N(c.C_active /\ c.C_mode = 1 /\ RLt(RInt(100), c.C_value))
    + B2N(c.T_active /\ c.T_file = "NULL")
    + B2N(c.N_active /\ c.N_file = "NULL")
    + B2N(c.N_file = "NULL" /\ c.G_file \notin {"template_%s"})
    + B2N(B2N(c.I_active) + B2N(c.R_active) = 1)

(***************************************************************************)
(* Helpers of the GMT library used by the ingestion loop.                  *)
(***************************************************************************)
\* gmt_M_is_zero: |x| < 1e-8.
gmt_M_is_zero(x) == ~IsNaN(x) /\ Abs(x[1]) < (x[2] + 99999999) \div 100000000

\* doubleAlmostEqualZero: equality up to a few units in the last place; the
\* values of the model are further apart than that unless they are equal.
doubleAlmostEqualZero(a, b) == a = b

\* The square root of a double that is a perfect square.
ISqrt(k) == CHOOSE r \in 0..k : r * r = k
RSqrt(q) == <<ISqrt(q[1]), ISqrt(q[2])>>

\* get_gps_radius for Cartesian data: gmt_distance is the Euclidean distance.
Hypot(ddx, ddy) == RSqrt(RAdd(RMul(ddx, ddx), RMul(ddy, ddy)))
get_gps_radius(P0, P1) == Hypot(RSub(P1.x, P0.x), RSub(P1.y, P0.y))

ZRow == [x |-> Zero, y |-> Zero, wu |-> Zero, wv |-> Zero]

(***************************************************************************)
(* The duplicate scan of one record (lines 554-572): i runs over the       *)
(* retained observations until one of them is identical to the record.     *)
(***************************************************************************)
\* The scan with every separation, zero or not, compared with r_min and r_max.
ScanAt_FoldZero(st, rec, i, r) ==
    [(IF gmt_M_is_zero(r)
      THEN IF doubleAlmostEqualZero(rec.u, u[i]) /\ doubleAlmostEqualZero(rec.v, v[i])
           THEN [st EXCEPT !.skip = TRUE, !.n_skip = @ + 1]
           ELSE [st EXCEPT !.n_duplicates = @ + 1]
      ELSE st)
     EXCEPT !.r_min = IF RLt(r, @) THEN r ELSE @,
            !.r_max = IF RLt(@, r) THEN r ELSE @]

\* The scan with an identical record counted but not skipped.
ScanAt_NoSkip(st, rec, i, r) ==
    IF gmt_M_is_zero(r)
    THEN IF doubleAlmostEqualZero(rec.u, u[i]) /\ doubleAlmostEqualZero(rec.v, v[i])
         THEN [st EXCEPT !.n_skip = @ + 1]
         ELSE [st EXCEPT !.n_duplicates = @ + 1]
    ELSE [st EXCEPT !.r_min = IF RLt(r, @) THEN r ELSE @,
                    !.r_max = IF RLt(@, r) THEN r ELSE @]

ScanAt(st, rec, i, r) ==
    IF gmt_M_is_zero(r)
    THEN IF doubleAlmostEqualZero(rec.u, u[i]) /\ doubleAlmostEqualZero(rec.v, v[i])
         THEN [st EXCEPT !.skip = TRUE, !.n_skip = @ + 1]
         ELSE [st EXCEPT !.n_duplicates = @ + 1]
    ELSE [st EXCEPT !.r_min = IF RLt(r, @) THEN r ELSE @,
                    !.r_max = IF RLt(@, r) THEN r ELSE @]

ScanStep(st, rec, i) == ScanAt(st, rec, i, get_gps_radius(X[i], rec))

RECURSIVE ScanFrom(_, _, _)
ScanFrom(st, rec, i) ==
    IF st.skip \/ i > n THEN st ELSE ScanFrom(ScanStep(st, rec, i), rec, i + 1)

ScanDuplicates(rec) ==
    ScanFrom([skip |-> FALSE, n_skip |-> n_skip, n_duplicates |-> n_duplicates,
              r_min |-> r_min, r_max |-> r_max], rec, 1)

\* The weights stored for a retained record (lines 576-583).
StoreWeights(row, rec) ==
    IF ~Ctrl.W_active THEN row
    ELSE IF Ctrl.W_mode = 0
         THEN [row EXCEPT !.wu = RDiv(One, rec.c4), !.wv = RDiv(One, rec.c5)]
         ELSE [row EXCEPT !.wu = rec.c4, !.wv = rec.c5]

\* gmt_M_memory growing an array to len entries, the new ones zeroed.
Grow(f, len, zero) == [k \in 1..len |-> IF k \in DOMAIN f THEN f[k] ELSE zero]

(***************************************************************************)
(* The Green's functions.                                                  *)
(***************************************************************************)
\* get_gps_dxdy for Cartesian data: the increments from point 0 to point 1.
get_gps_dxdy(P0, P1) == [dx |-> RSub(P1.x, P0.x), dy |-> RSub(P1.y, P0.y)]

\* floor(log2(a/b)) for a, b > 0.
RECURSIVE ILog2(_, _)
ILog2(a, b) ==
    IF a >= 2 * b THEN 1 + ILog2(a, 2 * b)
    ELSE IF a < b THEN ILog2(2 * a, b) - 1
    ELSE 0

\* log of libm, to the precision of the model: ln 2 is taken as 7/10 and the
\* argument is rounded down to a power of two; the log of zero or of a negative
\* number is not finite.
Ln(q) == IF IsNaN(q) \/ q[1] <= 0 THEN NaN ELSE Rat(7 * ILog2(q[1], q[2]), 10)

\* G[0], G[1] and G[2] from c1 log(dr2), c2 and the inverse of dr2.
GreensOf(dx, dy, dx2, dy2, g, c2, inv) ==
    <<RAdd(g, RMul(RMul(c2, dx2), inv)),
      RAdd(g, RMul(RMul(c2, dy2), inv)),
      RMul(RMul(RMul(c2, dx), dy), inv)>>

GreensAt(dx, dy, dx2, dy2, dr2, c1, c2) ==
    GreensOf(dx, dy, dx2, dy2, RMul(c1, Ln(dr2)), c2, RDiv(One, dr2))

GreensSq(dx, dy, dx2, dy2, p) ==
    GreensAt(dx, dy, dx2, dy2, RAdd(RAdd(dx2, dy2), p[2]),
             RDiv(RSub(RInt(3), p[1]), RInt(2)), RAdd(One, p[1]))

\* The Green's functions with the cross term taken from dx and |dy|.
evaluate_AbsCross(dx, dy, p) == GreensSq(dx, RAbs(dy), RMul(dx, dx), RMul(dy, dy), p)

evaluate_greensfunctions(dx, dy, p) == GreensSq(dx, dy, RMul(dx, dx), RMul(dy, dy), p)

\* get_gps_dxdy followed by evaluate_greensfunctions, as every caller does.
GreensBetween(d, p) == evaluate_greensfunctions(d.dx, d.dy, p)

\* par[0] and par[1] (lines 674-678).
InitPar(c, rmin) ==
    <<RMul(<<1, 2>>,
           RAdd(RDiv(RMul(RInt(2), RSub(One, c.S_nu)), RAdd(One, c.S_nu)), One)),
      IF c.F_mode = 1 THEN c.F_fudge ELSE RMul(c.F_fudge, rmin)>>

(***************************************************************************)
(* The linear system (lines 694-721).  A is the flat array of (2n)^2       *)
(* doubles, indexed from 0 as in the code.                                 *)
(***************************************************************************)
\* The weights of the pair (j, i): 1.0 unless -W is active.
weight_u(XX, active, j, i) == IF active THEN RMul(XX[j].wu, XX[i].wu) ELSE One
weight_v(XX, active, j, i) == IF active THEN RMul(XX[j].wv, XX[i].wv) ELSE One

\* The four stores of one pass of the inner loop, j and i counted from 0.
Gu_ij(nn, j, i) == j * (2 * nn) + i
Guv_ij(nn, j, i) == Gu_ij(nn, j, i) + nn
Gvu_ij(nn, j, i) == (j + nn) * (2 * nn) + i
\* The index of the Gv term without the offset of n columns.
Gv_NoOffset(nn, j, i) == Gvu_ij(nn, j, i)
Gv_ij(nn, j, i) == Gvu_ij(nn, j, i) + nn

StoreFour(AA, nn, j, i, GG, wu, wv) ==
    [AA EXCEPT ![Gu_ij(nn, j, i)] = RMul(wu, GG[1]),
               ![Gv_ij(nn, j, i)] = RMul(wv, GG[2]),
               ![Guv_ij(nn, j, i)] = RMul(wu, GG[3]),
               ![Gvu_ij(nn, j, i)] = RMul(wv, GG[3])]

StorePair(AA, XX, nn, active, p, j, i) ==
    StoreFour(AA, nn, j, i, GreensBetween(get_gps_dxdy(XX[i + 1], XX[j + 1]), p),
              weight_u(XX, active, j + 1, i + 1), weight_v(XX, active, j + 1, i + 1))

RECURSIVE BuildFrom(_, _, _, _, _, _)
BuildFrom(AA, XX, nn, active, p, k) ==
    IF k = nn * nn THEN AA
    ELSE BuildFrom(StorePair(AA, XX, nn, active, p, k \div nn, k % nn), XX, nn, active, p, k + 1)

\* The matrix allocated for n_alloc observations instead of n.
BuildA_Alloc(XX, nn, active, p) ==
    BuildFrom([k \in 0..(4 * n_alloc * n_alloc - 1) |-> Zero], XX, nn, active, p, 0)

BuildA(XX, nn, active, p) ==
    BuildFrom([k \in 0..(4 * nn * nn - 1) |-> Zero], XX, nn, active, p, 0)

\* The right-hand side: the weighted u followed by the weighted v, from index 0.
BuildObs(XX, uu, vv, nn, active) ==
    [k \in 0..(2 * nn - 1) |->
        IF k < nn
        THEN IF active THEN RMul(uu[k + 1], XX[k + 1].wu) ELSE uu[k + 1]
        ELSE IF active THEN RMul(vv[k - nn + 1], XX[k - nn + 1].wv) ELSE vv[k - nn + 1]]

(***************************************************************************)
(* The solvers of the GMT library.                                         *)
(***************************************************************************)
\* Gauss-Jordan elimination of the m x (m+1) augmented matrix M from column c.
RECURSIVE GJStep(_, _, _)
Pivots(M, m, c) == {r \in c..(m - 1) : M[r][c] # Zero}
FirstOf(P) == CHOOSE q \in P : \A q2 \in P : q <= q2
PivotRow(M, m, c, r) == [k \in 0..m |-> RDiv(M[r][k], M[r][c])]
Reduced(row, prow, m, c) == [k \in 0..m |-> RSub(row[k], RMul(row[c], prow[k]))]

\* Row r becomes row c, scaled; it is taken out of every other row.
Eliminate(M, m, c, r, prow) ==
    [i \in 0..(m - 1) |->
        IF i = c THEN prow ELSE Reduced(IF i = r THEN M[c] ELSE M[i], prow, m, c)]

PivotOn(M, m, c, r) == Eliminate(M, m, c, r, PivotRow(M, m, c, r))

GJStep(M, m, c) ==
    IF c = m THEN [ok |-> TRUE, x |-> [i \in 0..(m - 1) |-> M[i][m]]]
    ELSE IF Pivots(M, m, c) = {} THEN [ok |-> FALSE, x |-> [i \in 0..(m - 1) |-> Zero]]
    ELSE GJStep(PivotOn(M, m, c, FirstOf(Pivots(M, m, c))), m, c + 1)

HasNaN(f) == \E k \in DOMAIN f : IsNaN(f[k])

\* gmt_gaussjordan: the solution of A x = b, or an error for a singular matrix.
gmt_gaussjordan(AA, m, b) ==
    IF HasNaN(AA) \/ HasNaN(b) THEN [ok |-> FALSE, x |-> b]
    ELSE GJStep([i \in 0..(m - 1) |-> [k \in 0..m |-> IF k = m THEN b[i] ELSE AA[i * m + k]]],
                m, 0)

(***************************************************************************)
(* The singular value decomposition of the GMT library.  The singular      *)
(* values of A are rational when all retained observations lie at one      *)
(* location: then G_xy = 0 and G_xx = G_yy = g for every pair, so A is     *)
(* made of the two rank-one blocks g w_u w_u^T and g w_v w_v^T, with the   *)
(* singular values |g| |w_u|^2 and |g| |w_v|^2 and 2n - 2 zeros.  For any  *)
(* other matrix the values are irrational in general; the model then       *)
(* lets gmt_svdcmp return any of the vectors of SomeSingularValues.        *)
(***************************************************************************)
AllCoincident(XX, nn) ==
    \A i \in 1..nn : XX[i].x = XX[1].x /\ XX[i].y = XX[1].y

SumSq(XX, nn, active, comp) ==
    SumSeq([i \in 1..nn |->
              IF ~active THEN One
              ELSE IF comp = "u" THEN RMul(XX[i].wu, XX[i].wu) ELSE RMul(XX[i].wv, XX[i].wv)], nn)

BlockValues(g, su, sv, nn) ==
    [k \in 0..(2 * nn - 1) |->
        IF k = 0 THEN RMul(g, su) ELSE IF k = nn THEN RMul(g, sv) ELSE Zero]

ExactSingularValues(XX, nn, active, p) ==
    BlockValues(RAbs(evaluate_greensfunctions(Zero, Zero, p)[1]),
                SumSq(XX, nn, active, "u"), SumSq(XX, nn, active, "v"), nn)

SomeSingularValues(nn) ==
    {[k \in 0..(2 * nn - 1) |-> IF k < j THEN RInt(2) ELSE One] : j \in 0..(2 * nn)}

gmt_svdcmp(AA, XX, nn, active, p) ==
    IF HasNaN(AA) THEN {[k \in 0..(2 * nn - 1) |-> NaN]}
    ELSE IF AllCoincident(XX, nn) THEN {ExactSingularValues(XX, nn, active, p)}
    ELSE SomeSingularValues(nn)

\* gmt_solve_svd: with the ratio cutoff 0 nothing is truncated and a regular
\* system has its exact solution; the truncated solution of any other case is
\* not computed by the model, which lets it be one of two vectors.
SvdSolutions(gj, m, limit, mode) ==
    IF mode = 0 /\ limit = Zero /\ gj.ok THEN {gj.x}
    ELSE {[k \in 0..(m - 1) |-> Zero], [k \in 0..(m - 1) |-> One]}

gmt_solve_svd(AA, m, b, limit, mode) == SvdSolutions(gmt_gaussjordan(AA, m, b), m, limit, mode)

(***************************************************************************)
(* The eigenvalue file (lines 740-766).                                    *)
(***************************************************************************)
\* gmt_sort_array: the values in ascending order, indexed from 0.
RECURSIVE SortAsc(_, _)
Smallest(f) == CHOOSE k1 \in DOMAIN f : \A k2 \in DOMAIN f : ~RLt(f[k2], f[k1])
Without(f, m, k) == [j \in 0..(m - 2) |-> IF j < k THEN f[j] ELSE f[j + 1]]
SortFrom(f, m, k) == <<f[k]>> \o SortAsc(Without(f, m, k), m - 1)
SortAsc(f, m) == IF m = 0 THEN <<>> ELSE SortFrom(f, m, Smallest(f))

FromZero(sorted, m) == [k \in 0..(m - 1) |-> sorted[k + 1]]
gmt_sort_array(f, m) == FromZero(SortAsc(f, m), m)

\* The divisor of the ratios: eig[n-1] of the sorted array.
EigMax(eig, nn) == eig[nn - 1]

\* Record i (from 0) holds the rank i+1 and the value or the ratio of eig[2n-1-i].
EigenOf(eig, n2, cmode, eig_max) ==
    [i \in 0..(n2 - 1) |->
        [rank |-> i + 1,
         value |-> IF cmode = 1 THEN eig[n2 - 1 - i] ELSE RDiv(eig[n2 - 1 - i], eig_max)]]

EigenSorted(eig, nn, cmode) == EigenOf(eig, 2 * nn, cmode, EigMax(eig, nn))

EigenRecords(ss, nn, cmode) == EigenSorted(gmt_sort_array(ss, 2 * nn), nn, cmode)

(***************************************************************************)
(* The evaluation of the field (lines 818-892).                            *)
(***************************************************************************)
\* alpha_x = obs and alpha_y = &obs[n]; one pass of the loop over the sources,
\* p counted from 0: V gains the contribution of source p through the triple GG.
Accumulate(V, GG, alpha, nn, p) ==
    [V EXCEPT !.u = RAdd(@, RAdd(RMul(alpha[p], GG[1]), RMul(alpha[p + nn], GG[3]))),
              !.v = RAdd(@, RAdd(RMul(alpha[p + nn], GG[2]), RMul(alpha[p], GG[3])))]

RECURSIVE SumSources(_, _, _, _, _, _)
SumSources(V, XX, alpha, nn, pp, p) ==
    IF p = nn THEN V
    ELSE SumSources(Accumulate(V, GreensBetween(get_gps_dxdy(V, XX[p + 1]), pp), alpha, nn, p),
                    XX, alpha, nn, pp, p + 1)

\* The record of one output location: the sum over all sources, un-normalized.
Predict(x0, y0, XX, alpha, nn, pp, mode, c) ==
    undo_gps_normalization(
        SumSources([x |-> x0, y |-> y0, u |-> Zero, v |-> Zero], XX, alpha, nn, pp, 0), mode, c)

\* The cast (float): a grid node keeps fewer digits than a double.
ToFloat(q) ==
    IF IsNaN(q) THEN NaN ELSE Rat((2 * 64 * q[1] + q[2]) \div (2 * q[2]), 64)

\* The output lattice: gmt_grd_coord gives the x of each column and the y of
\* each row (row 0 is the northern one); gmt_M_ijp is the node index.
xp == <<Zero, RInt(3)>>
yp == <<RInt(4), Zero>>
GridNodes == 0..(Len(xp) * Len(yp) - 1)
gmt_M_ijp(row, col) == row * Len(xp) + col

\* The -N table: its segments and their rows.
Nin == << <<[x |-> RInt(3), y |-> Zero]>>,
          <<[x |-> Zero, y |-> Zero], [x |-> Zero, y |-> RInt(4)]>> >>

RECURSIVE Flatten(_)
Flatten(segs) == IF segs = <<>> THEN <<>> ELSE Head(segs) \o Flatten(Tail(segs))

\* The rows of thread t of the parallel for (static schedule), as the
\* sequence of the nodes it visits: row by row, column by column.
RowsOf(t) == {row \in 0..(Len(yp) - 1) : (row * nthreads) \div Len(yp) = t - 1}

RECURSIVE NodesFrom(_, _)
NodesFrom(t, row) ==
    IF row >= Len(yp) THEN <<>>
    ELSE (IF row \in RowsOf(t) THEN [col \in 1..Len(xp) |-> [row |-> row, col |-> col - 1]] ELSE <<>>)
         \o NodesFrom(t, row + 1)

NodeList(t) == NodesFrom(t, 0)

\* The next node at or after position k whose value is not NaN, or the end.
RECURSIVE SkipNaN(_, _, _)
SkipNaN(t, k, O) ==
    IF k > Len(NodeList(t)) THEN k
    ELSE IF IsNaN(O[gmt_M_ijp(NodeList(t)[k].row, NodeList(t)[k].col)].u) THEN SkipNaN(t, k + 1, O)
    ELSE k

\* The private variables of a thread standing at position k of its nodes.
AtNode(t, k) ==
    IF k > Len(NodeList(t))
    THEN [k |-> k, p |-> 0, V |-> [x |-> Zero, y |-> Zero, u |-> Zero, v |-> Zero], pos |-> "end"]
    ELSE [k |-> k, p |-> 0,
          V |-> [x |-> xp[NodeList(t)[k].col + 1], y |-> yp[NodeList(t)[k].row + 1],
                 u |-> Zero, v |-> Zero],
          pos |-> "eval"]

(***************************************************************************)
(* GMT_gpsgridder, one action per step.                                    *)
(***************************************************************************)
\* GMT_INITIAL_MEM_ROW_ALLOC, scaled down to the size of the model's inputs.
GMT_INITIAL_MEM_ROW_ALLOC == 2

\* Lines 484-533: parse the options; on success set the normalization mode
\* and allocate the arrays of the read loop.
Parse ==
    /\ pc = "parse"
    /\ UNCHANGED warned
    /\ \E c \in {ParseOptions(cmd)} :
           /\ Ctrl' = c
           /\ IF ParseErrors(c, cmd) > 0
              THEN /\ ret' = "GMT_PARSE_ERROR"
                   /\ pc' = "done"
                   /\ UNCHANGED <<normalize, n_alloc, X, u, v, n, n_read, r_min, r_max>>
              ELSE /\ normalize' = IF c.L_active THEN GPS_NORM ELSE GPS_TREND + GPS_NORM
                   /\ n_alloc' = GMT_INITIAL_MEM_ROW_ALLOC
                   /\ X' = [k \in 1..GMT_INITIAL_MEM_ROW_ALLOC |-> ZRow]
                   /\ u' = [k \in 1..GMT_INITIAL_MEM_ROW_ALLOC |-> Zero]
                   /\ v' = [k \in 1..GMT_INITIAL_MEM_ROW_ALLOC |-> Zero]
                   /\ n' = 0
                   /\ n_read' = 0
                   /\ r_min' = DBL_MAX
                   /\ r_max' = NegDBL_MAX
                   /\ pc' = "read"
                   /\ UNCHANGED ret
    /\ UNCHANGED <<cmd, input, mask, nthreads, n_skip, n_duplicates, norm, par, A, obs, s, E,
                   Out, written, G, thr, back>>

\* Lines 551-552: the location of the record goes to X[n] before the scan.
Located(XX, rec) == [XX EXCEPT ![n + 1].x = rec.x, ![n + 1].y = rec.y]

\* The arrays never reallocated.
NextAlloc_Fixed == n_alloc

\* Lines 585-592: the arrays double when n reaches n_alloc.
NextAlloc == IF n + 1 = n_alloc THEN 2 * n_alloc ELSE n_alloc

\* Lines 535-592: one data record.
ReadRecord ==
    /\ pc = "read"
    /\ UNCHANGED warned
    /\ input # <<>>
    /\ \E st \in {ScanDuplicates(Head(input))} :
           /\ input' = Tail(input)
           /\ n_read' = n_read + 1
           /\ n_skip' = st.n_skip
           /\ n_duplicates' = st.n_duplicates
           /\ r_min' = st.r_min
           /\ r_max' = st.r_max
           /\ IF st.skip
              THEN /\ X' = Located(X, Head(input))
                   /\ UNCHANGED <<u, v, n, n_alloc>>
              ELSE /\ n' = n + 1
                   /\ n_alloc' = NextAlloc
                   /\ X' = Grow([Located(X, Head(input)) EXCEPT
                                    ![n + 1] = StoreWeights(@, Head(input))], NextAlloc, ZRow)
                   /\ u' = Grow([u EXCEPT ![n + 1] = Head(input).u], NextAlloc, Zero)
                   /\ v' = Grow([v EXCEPT ![n + 1] = Head(input).v], NextAlloc, Zero)
    /\ UNCHANGED <<pc, ret, cmd, mask, nthreads, Ctrl, normalize, norm, par, A, obs, s, E,
                   Out, written, G, thr, back>>

\* The end of the input with the duplicates fatal only without -C.
EndInput_WithoutC ==
    /\ pc = "read"
    /\ UNCHANGED warned
    /\ input = <<>>
    /\ X' = [k \in 1..n |-> X[k]]
    /\ u' = [k \in 1..n |-> u[k]]
    /\ v' = [k \in 1..n |-> v[k]]
    /\ IF n_duplicates > 0 /\ ~Ctrl.C_active
       THEN ret' = "GMT_DATA_READ_ERROR" /\ pc' = "done"
       ELSE pc' = "locations" /\ UNCHANGED ret
    /\ UNCHANGED <<cmd, input, mask, nthreads, Ctrl, n, n_read, n_skip, n_duplicates, n_alloc,
                   r_min, r_max, normalize, norm, par, A, obs, s, E, Out, written, G, thr, back>>

\* Lines 540-541 and 595-626: end of file; the arrays are cut to n entries and
\* conflicting duplicates end the run unless -C has a cutoff that is not zero.
EndInput ==
    /\ pc = "read"
    /\ UNCHANGED warned
    /\ input = <<>>
    /\ X' = [k \in 1..n |-> X[k]]
    /\ u' = [k \in 1..n |-> u[k]]
    /\ v' = [k \in 1..n |-> v[k]]
    /\ IF n_duplicates > 0 /\ (~Ctrl.C_active \/ gmt_M_is_zero(Ctrl.C_value))
       THEN ret' = "GMT_DATA_READ_ERROR" /\ pc' = "done"
       ELSE pc' = "locations" /\ UNCHANGED ret
    /\ UNCHANGED <<cmd, input, mask, nthreads, Ctrl, n, n_read, n_skip, n_duplicates, n_alloc,
                   r_min, r_max, normalize, norm, par, A, obs, s, E, Out, written, G, thr, back>>

\* Lines 628-678: the output grids (the mask and its copy, or two new grids;
\* none for -N) and the parameters of the Green's functions.
SetupOutput ==
    /\ pc = "locations"
    /\ UNCHANGED warned
    /\ Out' = IF Ctrl.T_file # "NULL" THEN [k \in GridNodes |-> [u |-> mask[k], v |-> mask[k]]]
              ELSE IF Ctrl.N_active THEN <<>>
              ELSE [k \in GridNodes |-> [u |-> Zero, v |-> Zero]]
    /\ par' = InitPar(Ctrl, r_min)
    /\ pc' = "normalize"
    /\ UNCHANGED <<ret, cmd, input, mask, nthreads, Ctrl, X, u, v, n, n_read, n_skip,
                   n_duplicates, n_alloc, r_min, r_max, normalize, norm, A, obs, s, E,
                   written, G, thr, back>>

\* Line 682.
Normalize ==
    /\ pc = "normalize"
    /\ UNCHANGED warned
    /\ \E r \in {do_gps_normalization(X, u, v, n, normalize)} :
           u' = r.u /\ v' = r.v /\ norm' = r.coeff
    /\ pc' = "build"
    /\ UNCHANGED <<ret, cmd, input, mask, nthreads, Ctrl, X, n, n_read, n_skip, n_duplicates,
                   n_alloc, r_min, r_max, normalize, par, A, obs, s, E, Out, written, G, thr, back>>

\* Lines 690-721: the matrix and the right-hand side; u and v are weighted in place.
BuildSystem ==
    /\ pc = "build"
    /\ UNCHANGED warned
    /\ A' = BuildA(X, n, Ctrl.W_active, par)
    /\ obs' = BuildObs(X, u, v, n, Ctrl.W_active)
    /\ u' = [k \in 1..n |-> obs'[k - 1]]
    /\ v' = [k \in 1..n |-> obs'[k - 1 + n]]
    /\ pc' = "solve"
    /\ UNCHANGED <<ret, cmd, input, mask, nthreads, Ctrl, X, n, n_read, n_skip, n_duplicates,
                   n_alloc, r_min, r_max, normalize, norm, par, s, E, Out, written, G, thr, back>>

\* Lines 723-738: the decomposition of the SVD branch.
SvdDecompose ==
    /\ pc = "solve"
    /\ UNCHANGED warned
    /\ Ctrl.C_active
    /\ \E sv \in gmt_svdcmp(A, X, n, Ctrl.W_active, par) : s' = sv
    /\ pc' = IF Ctrl.C_file # "NULL" THEN "eigen" ELSE "svdsolve"
    /\ UNCHANGED <<ret, cmd, input, mask, nthreads, Ctrl, X, u, v, n, n_read, n_skip,
                   n_duplicates, n_alloc, r_min, r_max, normalize, norm, par, A, obs, E,
                   Out, written, G, thr, back>>

\* Lines 740-780: the eigenvalue file; a negative cutoff ends the run here.
WriteEigen ==
    /\ pc = "eigen"
    /\ UNCHANGED warned
    /\ E' = EigenRecords(s, n, Ctrl.C_mode)
    /\ IF RLt(Ctrl.C_value, Zero)
       THEN ret' = "EXIT_SUCCESS" /\ pc' = "done"
       ELSE pc' = "svdsolve" /\ UNCHANGED ret
    /\ UNCHANGED <<cmd, input, mask, nthreads, Ctrl, X, u, v, n, n_read, n_skip, n_duplicates,
                   n_alloc, r_min, r_max, normalize, norm, par, A, obs, s, Out, written, G, thr, back>>

\* Lines 781-793.
SolveSvd ==
    /\ pc = "svdsolve"
    /\ UNCHANGED warned
    /\ \E x \in gmt_solve_svd(A, 2 * n, obs, Ctrl.C_value, Ctrl.C_mode) : obs' = x
    /\ pc' = "evaluate"
    /\ UNCHANGED <<ret, cmd, input, mask, nthreads, Ctrl, X, u, v, n, n_read, n_skip,
                   n_duplicates, n_alloc, r_min, r_max, normalize, norm, par, A, s, E,
                   Out, written, G, thr, back>>

\* Lines 795-808: the warning of a zero r_min, then the elimination.
GaussJordan ==
    /\ pc = "solve"
    /\ ~Ctrl.C_active
    /\ warned' = gmt_M_is_zero(r_min)
    /\ \E r \in {gmt_gaussjordan(A, 2 * n, obs)} :
           IF r.ok
           THEN obs' = r.x /\ pc' = "evaluate" /\ UNCHANGED ret
           ELSE ret' = "GAUSSJORDAN_ERROR" /\ pc' = "done" /\ UNCHANGED obs
    /\ UNCHANGED <<cmd, input, mask, nthreads, Ctrl, X, u, v, n, n_read, n_skip, n_duplicates,
                   n_alloc, r_min, r_max, normalize, norm, par, A, s, E, Out, written, G, thr, back>>

\* Lines 818-838 and 863-875: enter the loop over the points of -N, or start
\* the threads of the lattice loop.  With -N and -T both given the table
\* pointer T is still null when T->n_records is read.
StartEvaluate ==
    /\ pc = "evaluate"
    /\ UNCHANGED warned
    /\ IF Ctrl.N_file # "NULL"
       THEN /\ IF Ctrl.T_file # "NULL"
               THEN ret' = "SIGSEGV" /\ pc' = "done"
               ELSE pc' = "points" /\ UNCHANGED ret
            /\ UNCHANGED thr
       ELSE /\ thr' = [t \in 1..nthreads |-> AtNode(t, SkipNaN(t, 1, Out))]
            /\ pc' = "lattice"
            /\ UNCHANGED ret
    /\ UNCHANGED <<cmd, input, mask, nthreads, Ctrl, X, u, v, n, n_read, n_skip, n_duplicates,
                   n_alloc, r_min, r_max, normalize, norm, par, A, obs, s, E, Out, written, G, back>>

\* The record of the next point with the sums of the point before it kept in
\* out[GMT_U] and out[GMT_V].
EvalPoint_NoReset ==
    /\ pc = "points"
    /\ UNCHANGED warned
    /\ Len(written) < Len(Flatten(Nin))
    /\ LET pt == Flatten(Nin)[Len(written) + 1]
       IN  written' = Append(written,
               undo_gps_normalization(
                   SumSources([x |-> pt.x, y |-> pt.y,
                               u |-> IF written = <<>> THEN Zero ELSE written[Len(written)].u,
                               v |-> IF written = <<>> THEN Zero ELSE written[Len(written)].v],
                              X, obs, n, par, 0), normalize, norm))
    /\ UNCHANGED <<pc, ret, cmd, input, mask, nthreads, Ctrl, X, u, v, n, n_read, n_skip,
                   n_duplicates, n_alloc, r_min, r_max, normalize, norm, par, A, obs, s, E,
                   Out, G, thr, back>>

\* Lines 841-855: the record of the next point of the table is written.
EvalPoint ==
    /\ pc = "points"
    /\ UNCHANGED warned
    /\ Len(written) < Len(Flatten(Nin))
    /\ LET pt == Flatten(Nin)[Len(written) + 1]
       IN  written' = Append(written, Predict(pt.x, pt.y, X, obs, n, par, normalize, norm))
    /\ UNCHANGED <<pc, ret, cmd, input, mask, nthreads, Ctrl, X, u, v, n, n_read, n_skip,
                   n_duplicates, n_alloc, r_min, r_max, normalize, norm, par, A, obs, s, E,
                   Out, G, thr, back>>

\* Lines 856-862 and 906-915.
EndPoints ==
    /\ pc = "points"
    /\ UNCHANGED warned
    /\ Len(written) = Len(Flatten(Nin))
    /\ ret' = "EXIT_SUCCESS"
    /\ pc' = "done"
    /\ UNCHANGED <<cmd, input, mask, nthreads, Ctrl, X, u, v, n, n_read, n_skip, n_duplicates,
                   n_alloc, r_min, r_max, normalize, norm, par, A, obs, s, E, Out, written,
                   G, thr, back>>

\* Lines 883-884: thread t evaluates the Green's functions of its node and
\* source p into G, the array of GMT_gpsgridder that the pragma does not
\* list as private.
ThreadEval(t) ==
    /\ pc = "lattice"
    /\ UNCHANGED warned
    /\ thr[t].pos = "eval"
    /\ G' = GreensBetween(get_gps_dxdy(thr[t].V, X[thr[t].p + 1]), par)
    /\ thr' = [thr EXCEPT ![t].pos = "acc"]
    /\ UNCHANGED <<pc, ret, cmd, input, mask, nthreads, Ctrl, X, u, v, n, n_read, n_skip,
                   n_duplicates, n_alloc, r_min, r_max, normalize, norm, par, A, obs, s, E,
                   Out, written, back>>

\* Lines 889-890: the node of position k of thread t, and the floats stored there.
NodeIndex(t, k) == gmt_M_ijp(NodeList(t)[k].row, NodeList(t)[k].col)
Stored(W) == [u |-> ToFloat(W.u), v |-> ToFloat(W.v)]

\* Lines 885-890: thread t adds the contribution read from G to its V; after
\* the last source it un-normalizes V, stores the node and moves to its next node.
ThreadAcc(t) ==
    /\ pc = "lattice"
    /\ UNCHANGED warned
    /\ thr[t].pos = "acc"
    /\ \E V1 \in {Accumulate(thr[t].V, G, obs, n, thr[t].p)} :
           IF thr[t].p + 1 < n
           THEN /\ thr' = [thr EXCEPT ![t].V = V1, ![t].p = @ + 1, ![t].pos = "eval"]
                /\ UNCHANGED Out
           ELSE /\ Out' = [Out EXCEPT ![NodeIndex(t, thr[t].k)] =
                                         Stored(undo_gps_normalization(V1, normalize, norm))]
                /\ thr' = [thr EXCEPT ![t] = AtNode(t, SkipNaN(t, thr[t].k + 1, Out'))]
    /\ UNCHANGED <<pc, ret, cmd, input, mask, nthreads, Ctrl, X, u, v, n, n_read, n_skip,
                   n_duplicates, n_alloc, r_min, r_max, normalize, norm, par, A, obs, s, E,
                   written, G, back>>

\* Lines 893-915: all threads are through; the two grids are written.
WriteGrids ==
    /\ pc = "lattice"
    /\ UNCHANGED warned
    /\ \A t \in 1..nthreads : thr[t].pos = "end"
    /\ written' = <<[k \in GridNodes |-> Out[k].u], [k \in GridNodes |-> Out[k].v]>>
    /\ ret' = "EXIT_SUCCESS"
    /\ pc' = "done"
    /\ UNCHANGED <<cmd, input, mask, nthreads, Ctrl, X, u, v, n, n_read, n_skip, n_duplicates,
                   n_alloc, r_min, r_max, normalize, norm, par, A, obs, s, E, Out, G, thr, back>>

Next ==
    \/ Parse
    \/ ReadRecord
    \/ EndInput
    \/ SetupOutput
    \/ Normalize
    \/ BuildSystem
    \/ SvdDecompose
    \/ WriteEigen
    \/ SolveSvd
    \/ GaussJordan
    \/ StartEvaluate
    \/ EvalPoint
    \/ EndPoints
    \/ \E t \in 1..nthreads : ThreadEval(t)
    \/ \E t \in 1..nthreads : ThreadAcc(t)
    \/ WriteGrids

(***************************************************************************)
(* The runs of the model: command lines and input tables.                  *)
(***************************************************************************)
NoC == [given |-> FALSE, mode |-> "", value |-> Zero, file |-> "NULL"]
OptC(m, val, f) == [given |-> TRUE, mode |-> m, value |-> val, file |-> f]
NoF == [given |-> FALSE, kind |-> "", value |-> Zero]
OptF(k, val) == [given |-> TRUE, kind |-> k, value |-> val]
NoW == [given |-> FALSE, arg |-> ""]
OptW(a) == [given |-> TRUE, arg |-> a]
NoS == [given |-> FALSE, value |-> Zero]
OptS(val) == [given |-> TRUE, value |-> val]

\* gpsgridder -R0/3/0/4 -I3/4 -Gtemplate_%s -Fd1 -S0.3333: parameters that
\* keep the numerators and denominators of the model small.
BaseCmd ==
    [C |-> NoC, F |-> OptF("d", One), G |-> "template_%s", I |-> TRUE, L |-> FALSE,
     N |-> "NULL", R |-> TRUE, T |-> "NULL", W |-> NoW, S |-> OptS(<<1, 3>>)]

\* The same with the output at the points of -N.
PointCmd == [BaseCmd EXCEPT !.G = "out.txt", !.I = FALSE, !.R = FALSE, !.N = "nodes.txt"]

\* The -C options of the model: none, ratio 0, a positive ratio, -Cv and -Cn
\* with a file, and two negative cutoffs with a file.
COptions ==
    {NoC, OptC("", Zero, "NULL"), OptC("", <<1, 10>>, "eig.txt"), OptC("v", RInt(90), "eig.txt"),
     OptC("", RInt(-1), "eig.txt"), OptC("", <<-1, 1000000000>>, "eig.txt"),
     OptC("", <<1, 1000000000>>, "NULL")}

Values == {<<1, 0>>, <<0, 2>>, <<1, 2>>}
Sigmas == {<<One, One>>, <<<<1, 2>>, <<1, 2>>>>, <<One, <<1, 2>>>>}

Record(l, w, sg) ==
    [x |-> RInt(l[1]), y |-> RInt(l[2]), u |-> RInt(w[1]), v |-> RInt(w[2]),
     c4 |-> sg[1], c5 |-> sg[2]]

SeqsUpTo(S, len) == UNION {[1..k -> S] : k \in 1..len}

\* Tables without the two extra columns: every record is one of three
\* observations at (0, 0) or the observation at (3, 4).
PlainRecords ==
    {Record(<<0, 0>>, w, <<One, One>>) : w \in Values}
    \cup {Record(<<3, 4>>, <<0, 2>>, <<One, One>>)}
PlainInputs == SeqsUpTo(PlainRecords, MaxRecords)

\* Tables with the two extra columns: one or two records at distinct locations.
WeightedInputs ==
    {<<Record(<<0, 0>>, <<1, 0>>, s1)>> : s1 \in Sigmas}
    \cup {<<Record(<<0, 0>>, <<1, 0>>, s1), Record(<<3, 4>>, <<0, 2>>, s2)>> : s1, s2 \in Sigmas}

AllValid == [k \in GridNodes |-> Zero]
Masks == {AllValid, [k \in GridNodes |-> IF k = 1 THEN NaN ELSE Zero],
          [k \in GridNodes |-> IF k >= Len(xp) THEN NaN ELSE Zero]}

\* The state when GMT_gpsgridder is entered.
Start(c, in, m, nt) ==
    /\ pc = "parse"
    /\ ret = "running"
    /\ cmd = c
    /\ input = in
    /\ mask = m
    /\ nthreads = nt
    /\ Ctrl = New_Ctrl
    /\ X = <<>> /\ u = <<>> /\ v = <<>>
    /\ n = 0 /\ n_read = 0 /\ n_skip = 0 /\ n_duplicates = 0 /\ n_alloc = 0
    /\ r_min = Zero /\ r_max = Zero
    /\ normalize = 0
    /\ norm = ZeroCoeff
    /\ par = <<Zero, Zero>>
    /\ A = <<>> /\ obs = <<>> /\ s = <<>> /\ E = <<>>
    /\ Out = <<>> /\ written = <<>>
    /\ G = <<Zero, Zero, Zero>>
    /\ thr = <<>>
    /\ back = <<>>
    /\ warned = FALSE

\* Tables with duplicates and every -C option, output at the points of -N.
InitData ==
    \E c \in COptions, in \in PlainInputs :
        Start([PointCmd EXCEPT !.C = c], in, AllValid, 1)

\* Tables with sigmas or weights under -W and -Ww: the direct solver, and the
\* eigenvalue file in ratio mode and under -Cv with -Fd2.
InitWeighted ==
    \E w \in {OptW(""), OptW("w")}, in \in WeightedInputs :
        \/ Start([PointCmd EXCEPT !.W = w], in, AllValid, 1)
        \/ \E c \in {OptC("", <<1, 10>>, "eig.txt"), OptC("v", RInt(90), "eig.txt")} :
              Start([PointCmd EXCEPT !.W = w, !.C = c, !.F = OptF("d", RInt(2))], in, AllValid, 1)

\* The combinations of the output-location options.
OutputForms ==
    {[BaseCmd EXCEPT !.R = r, !.I = i, !.T = t, !.N = nn, !.G = g] :
        r \in BOOLEAN, i \in BOOLEAN, t \in {"NULL", "mask.nc"}, nn \in {"NULL", "nodes.txt"},
        g \in {"template_%s", "out.txt"}}

InitOptions ==
    \E o \in OutputForms, c \in {NoC, OptC("", RInt(-1), "NULL"), OptC("v", RInt(101), "NULL")},
       f \in {OptF("d", One), OptF("x", Zero)}, m \in Masks :
        Start([o EXCEPT !.C = c, !.F = f],
              <<Record(<<0, 0>>, <<1, 0>>, <<One, One>>), Record(<<3, 4>>, <<0, 2>>, <<One, One>>)>>,
              m, 1)

\* gpsgridder -Tmask.nc -I3/4 -Gtemplate_%s: the lattice of the mask.
MaskCmd == [BaseCmd EXCEPT !.T = "mask.nc", !.R = FALSE]

\* The lattice loop on one thread and on two, without a mask and with one.
InitLattice ==
    \E nt \in {1, 2} :
        \/ \E in \in SeqsUpTo({Record(<<0, 0>>, <<1, 0>>, <<One, One>>),
                                Record(<<3, 4>>, <<0, 2>>, <<One, One>>)}, 2) :
               Start(BaseCmd, in, AllValid, nt)
        \/ \E m \in Masks :
               Start(MaskCmd,
                     <<Record(<<0, 0>>, <<1, 0>>, <<One, One>>),
                       Record(<<3, 4>>, <<0, 2>>, <<One, One>>)>>, m, nt)

\* The fudge options: -Fd with zero, a negative and a positive radius, -Ff
\* with zero and with a positive factor, on tables of one observation, of one
\* location and of two locations; the default (-Ff0.01), and the default
\* Poisson's ratio, on the tables of one location.
FOptions ==
    {OptF("d", Zero), OptF("d", RInt(-1)), OptF("d", One), OptF("f", Zero), OptF("f", <<1, 5>>)}

FudgeInputs ==
    {<<Record(<<0, 0>>, <<1, 0>>, <<One, One>>)>>,
     <<Record(<<0, 0>>, <<1, 0>>, <<One, One>>), Record(<<0, 0>>, <<1, 0>>, <<One, One>>)>>,
     <<Record(<<0, 0>>, <<1, 0>>, <<One, One>>), Record(<<3, 4>>, <<0, 2>>, <<One, One>>)>>,
     <<Record(<<3, 4>>, <<0, 2>>, <<One, One>>), Record(<<0, 0>>, <<1, 0>>, <<One, One>>),
       Record(<<3, 4>>, <<0, 2>>, <<One, One>>)>>}

InitFudge ==
    \E in \in FudgeInputs :
        \/ \E f \in FOptions : Start([PointCmd EXCEPT !.F = f], in, AllValid, 1)
        \/ /\ \A k \in 1..Len(in) : in[k].x = Zero
           /\ \/ Start([PointCmd EXCEPT !.F = NoF], in, AllValid, 1)
              \/ \E f \in FOptions \cup {NoF, OptF("d", RInt(2))} :
                     Start([PointCmd EXCEPT !.F = f, !.S = NoS], in, AllValid, 1)

Init == InitData \/ InitWeighted \/ InitOptions \/ InitLattice \/ InitFudge

Spec == Init /\ [][Next]_vars

(***************************************************************************)
(* do_gps_normalization followed by undo_gps_normalization on its own:     *)
(* the observations lie on the corners of a rectangle or on a line, in     *)
(* every mode from 0 (mean only) to GPS_TREND + GPS_NORM.                  *)
(***************************************************************************)
Corners == <<<<0, 0>>, <<3, 0>>, <<3, 4>>, <<0, 4>>>>
NormLocation(line, i) ==
    IF line THEN (IF i % 2 = 1 THEN <<0, 0>> ELSE <<3, 4>>) ELSE Corners[((i - 1) % 4) + 1]
NormValues == {<<1, 0>>, <<0, 2>>, <<1, 2>>}

NormTables ==
    UNION {{[i \in 1..k |-> Record(NormLocation(line, i), w[i], <<One, One>>)] :
               w \in [1..k -> NormValues], line \in BOOLEAN} : k \in 1..MaxNormObs}

InitNorm ==
    \E t \in NormTables, mode \in 0..(GPS_TREND + GPS_NORM) :
        /\ pc = "normalize_only"
        /\ ret = "running"
        /\ cmd = BaseCmd
        /\ input = t
        /\ mask = AllValid
        /\ nthreads = 1
        /\ Ctrl = New_Ctrl
        /\ X = [i \in 1..Len(t) |-> [ZRow EXCEPT !.x = t[i].x, !.y = t[i].y]]
        /\ u = [i \in 1..Len(t) |-> t[i].u]
        /\ v = [i \in 1..Len(t) |-> t[i].v]
        /\ n = Len(t) /\ n_read = Len(t) /\ n_skip = 0 /\ n_duplicates = 0 /\ n_alloc = Len(t)
        /\ r_min = Zero /\ r_max = Zero
        /\ normalize = mode
        /\ norm = ZeroCoeff
        /\ par = <<Zero, Zero>>
        /\ A = <<>> /\ obs = <<>> /\ s = <<>> /\ E = <<>>
        /\ Out = <<>> /\ written = <<>>
        /\ G = <<Zero, Zero, Zero>>
        /\ thr = <<>>
        /\ back = <<>>
        /\ warned = FALSE

\* The call of line 682.
NormForward ==
    /\ pc = "normalize_only"
    /\ UNCHANGED warned
    /\ \E r \in {do_gps_normalization(X, u, v, n, normalize)} :
           u' = r.u /\ v' = r.v /\ norm' = r.coeff
    /\ pc' = "restore"
    /\ UNCHANGED <<ret, cmd, input, mask, nthreads, Ctrl, X, n, n_read, n_skip, n_duplicates,
                   n_alloc, r_min, r_max, normalize, par, A, obs, s, E, Out, written, G, thr, back>>

\* The call of lines 852 and 888, at the location of every observation.
NormInverse ==
    /\ pc = "restore"
    /\ UNCHANGED warned
    /\ back' = [i \in 1..n |->
                  undo_gps_normalization([x |-> X[i].x, y |-> X[i].y, u |-> u[i], v |-> v[i]],
                                         normalize, norm)]
    /\ pc' = "restored"
    /\ UNCHANGED <<ret, cmd, input, mask, nthreads, Ctrl, X, u, v, n, n_read, n_skip,
                   n_duplicates, n_alloc, r_min, r_max, normalize, norm, par, A, obs, s, E,
                   Out, written, G, thr>>

NextNorm == NormForward \/ NormInverse

SpecNorm == InitNorm /\ [][NextNorm]_vars

(***************************************************************************)
(* The properties.                                                         *)
(***************************************************************************)
\* The retained observations with every weight equal to 1, the u or v they had
\* before the weighting of line 698, and the coefficients Gauss-Jordan finds
\* for them.
UnitWeights(XX) == [i \in DOMAIN XX |-> [XX[i] EXCEPT !.wu = One, !.wv = One]]
Unweighted(w, XX, comp) ==
    [i \in 1..n |-> RDiv(w[i], IF comp = "u" THEN XX[i].wu ELSE XX[i].wv)]
UnitWeightAlpha ==
    gmt_gaussjordan(BuildA(UnitWeights(X), n, TRUE, par), 2 * n,
                    BuildObs(UnitWeights(X), Unweighted(u, X, "u"), Unweighted(v, X, "v"),
                             n, TRUE)).x

\* C1: when every observation has the weight 2 in both components, the
\* coefficients found by the direct solver are those found for the same
\* observations with every weight equal to 1.
C1_UniformWeights ==
    (/\ pc = "evaluate"
     /\ Ctrl.W_active
     /\ ~Ctrl.C_active
     /\ \A i \in 1..n : X[i].wu = RInt(2) /\ X[i].wv = RInt(2))
    => obs = UnitWeightAlpha

\* The node (row, col) as one thread alone leaves it: the mask's NaN, or the
\* sum over all sources, un-normalized and cast to float.
ExpectedNode(row, col) ==
    IF Ctrl.T_file # "NULL" /\ IsNaN(mask[gmt_M_ijp(row, col)])
    THEN [u |-> NaN, v |-> NaN]
    ELSE Stored(Predict(xp[col + 1], yp[row + 1], X, obs, n, par, normalize, norm))

\* C2: the value stored at each grid node is the same under every
\* interleaving of the threads of the lattice loop: when the grids are
\* written every node holds the value one thread alone computes for it.
C2_NodesIndependent ==
    (pc = "done" /\ ret = "EXIT_SUCCESS" /\ Ctrl.N_file = "NULL" /\ written # <<>>)
    => \A row \in 0..(Len(yp) - 1), col \in 0..(Len(xp) - 1) :
          Out[gmt_M_ijp(row, col)] = ExpectedNode(row, col)

\* The run went on after the end of the input.
PastIngestion ==
    \/ pc \in {"locations", "normalize", "build", "solve", "eigen", "svdsolve", "evaluate",
               "points", "lattice"}
    \/ pc = "done" /\ ret \notin {"GMT_PARSE_ERROR", "GMT_DATA_READ_ERROR"}

\* The run got to a decomposition or a solve.
Decomposed ==
    \/ pc \in {"eigen", "svdsolve", "evaluate", "points", "lattice"}
    \/ pc = "done" /\ ret \in {"EXIT_SUCCESS", "GAUSSJORDAN_ERROR", "SIGSEGV"}

\* C3 as stated: with conflicting duplicates the run goes on past the
\* ingestion only under the SVD solver with a strictly positive cutoff.
C3_PositiveCutoffOnly ==
    (n_duplicates > 0 /\ PastIngestion) => (Ctrl.C_active /\ RLt(Zero, Ctrl.C_value))

\* C3 as amended: with conflicting duplicates the run goes on past the
\* ingestion only under the SVD solver with a cutoff that is not zero to 1e-8,
\* positive or negative; under a negative one nothing is solved after the
\* decomposition, and in every other configuration nothing is decomposed.
C3_NonZeroCutoffOnly ==
    /\ (n_duplicates > 0 /\ PastIngestion) => (Ctrl.C_active /\ ~gmt_M_is_zero(Ctrl.C_value))
    /\ (n_duplicates > 0 /\ RLt(Ctrl.C_value, Zero)) =>
           (pc \notin {"svdsolve", "evaluate", "points", "lattice"} /\ written = <<>>)
    /\ (n_duplicates > 0 /\ (~Ctrl.C_active \/ gmt_M_is_zero(Ctrl.C_value))) => ~Decomposed

\* Conflicting duplicates under a negative cutoff: the decomposition is done
\* and the eigenvalue file is about to be written.
C3_Witness == n_duplicates > 0 /\ pc = "eigen" /\ RLt(Ctrl.C_value, Zero)

\* The retained observations at the location of a record, with its values or
\* with other values.
Coincides(i, rec) == X[i].x = rec.x /\ X[i].y = rec.y
SameValues(i, rec) == u[i] = rec.u /\ v[i] = rec.v
Identical(rec) == {i \in 1..n : Coincides(i, rec) /\ SameValues(i, rec)}
Conflicting(rec, k) == {i \in 1..k : Coincides(i, rec) /\ ~SameValues(i, rec)}
First(S) == CHOOSE i \in S : \A j \in S : i <= j

\* The record read by this step is discarded, or it is retained.
Discarded ==
    /\ n' = n
    /\ n_skip' = n_skip + 1
    /\ \A i \in 1..n : X'[i] = X[i] /\ u'[i] = u[i] /\ v'[i] = v[i]
RetainedAs(rec) ==
    /\ n' = n + 1
    /\ n_skip' = n_skip
    /\ \A i \in 1..n : X'[i] = X[i] /\ u'[i] = u[i] /\ v'[i] = v[i]
    /\ X'[n + 1].x = rec.x /\ X'[n + 1].y = rec.y /\ u'[n + 1] = rec.u /\ v'[n + 1] = rec.v

\* C4 as stated: a record identical to a retained observation is discarded;
\* a record at the location of a retained observation with another u or v is
\* retained and the count of conflicting duplicates grows.
C4_DuplicateHandling ==
    [][(pc = "read" /\ input # <<>>) =>
         /\ Identical(Head(input)) # {} => Discarded
         /\ Conflicting(Head(input), n) # {} =>
                (n' = n + 1 /\ n_duplicates' > n_duplicates)]_vars

\* C4 as amended: a record identical to a retained observation is discarded,
\* and the count of conflicting duplicates grows by the number of retained
\* observations before that one which share the location with other values;
\* a record identical to none is retained, and the count grows by the number
\* of retained observations that share its location.
C4_DuplicateScan ==
    [][(pc = "read" /\ input # <<>>) =>
         IF Identical(Head(input)) # {}
         THEN /\ Discarded
              /\ n_duplicates' = n_duplicates
                    + Cardinality(Conflicting(Head(input), First(Identical(Head(input))) - 1))
         ELSE /\ RetainedAs(Head(input))
              /\ n_duplicates' = n_duplicates + Cardinality(Conflicting(Head(input), n))]_vars

\* Three records at one location: the second conflicts with the first, the
\* third conflicts with the first and is identical to the second.
C4_Witness == input = <<>> /\ pc = "read" /\ n_read = 3 /\ n = 2 /\ n_skip = 1 /\ n_duplicates = 2

\* The three forms of the output locations on a command line, and the other
\* options that parse checks.
GridForm(c) == c.R /\ c.I
MaskForm(c) == c.T # "NULL"
PointForm(c) == c.N # "NULL"
FormsGiven(c) == B2N(GridForm(c)) + B2N(MaskForm(c)) + B2N(PointForm(c))
OthersValid(c) ==
    /\ ~c.F.given \/ c.F.kind \in {"d", "f"}
    /\ ~c.C.given \/ ~(RLt(c.C.value, Zero) /\ c.C.file = "NULL")
    /\ ~c.C.given \/ ~(c.C.mode = "v" /\ RLt(RInt(100), c.C.value))

\* C6: -R with -I and a -G template, -T with a -G template and neither -R nor
\* -I, and -N alone are each accepted by parse.
C6_FormsAccepted ==
    (/\ pc # "parse"
     /\ OthersValid(cmd)
     /\ \/ GridForm(cmd) /\ cmd.G = "template_%s" /\ ~MaskForm(cmd) /\ ~PointForm(cmd)
        \/ MaskForm(cmd) /\ cmd.G = "template_%s" /\ ~cmd.R /\ ~cmd.I /\ ~PointForm(cmd)
        \/ PointForm(cmd) /\ ~cmd.R /\ ~cmd.I /\ ~MaskForm(cmd))
    => ret # "GMT_PARSE_ERROR"

\* C7: a command line with none of the three forms, or with more than one of
\* them, ends in parse with an error before any record is read.
C7_FormsRejected ==
    (pc # "parse" /\ FormsGiven(cmd) # 1) => (ret = "GMT_PARSE_ERROR" /\ n_read = 0)

\* C8: the weights stored for a retained record are the reciprocals of its
\* two extra columns under -W and the columns themselves under -Ww.
C8_ColumnMeaning ==
    [][(pc = "read" /\ input # <<>> /\ cmd.W.given /\ n' = n + 1) =>
         IF cmd.W.arg = "w"
         THEN X'[n + 1].wu = Head(input).c4 /\ X'[n + 1].wv = Head(input).c5
         ELSE /\ X'[n + 1].wu = RDiv(One, Head(input).c4)
              /\ X'[n + 1].wv = RDiv(One, Head(input).c5)]_vars

\* The largest singular value, and the singular values in descending order.
Largest(f) == CHOOSE q \in {f[k] : k \in DOMAIN f} : \A k \in DOMAIN f : ~RLt(q, f[k])
Descending(f, m) == [k \in 0..(m - 1) |-> gmt_sort_array(f, m)[m - 1 - k]]

\* C9: the eigenvalue file holds 2n records with the ranks 1..2n and values
\* that do not increase; under -Cv record k holds the k-th largest singular
\* value, otherwise its ratio to the largest of all, so that the first value
\* is 1 and none is above 1.
C9_EigenRecords ==
    (E # <<>> /\ RLt(Zero, Largest(s))) =>
        /\ DOMAIN E = 0..(2 * n - 1)
        /\ \A k \in DOMAIN E : E[k].rank = k + 1
        /\ \A k \in 0..(2 * n - 2) : ~RLt(E[k].value, E[k + 1].value)
        /\ IF Ctrl.C_mode = 1
           THEN \A k \in DOMAIN E : E[k].value = Descending(s, 2 * n)[k]
           ELSE /\ E[0].value = One
                /\ \A k \in DOMAIN E :
                      /\ ~RLt(One, E[k].value)
                      /\ E[k].value = RDiv(Descending(s, 2 * n)[k], Largest(s))

\* C10: a run under the SVD solver with a negative cutoff whose options
\* parse accepts ends with success after the eigenvalue file is written
\* and before anything is solved, evaluated or written; a negative cutoff
\* without an eigenvalue file is rejected by parse.
C10_DiagnosticsOnly ==
    /\ (pc = "done" /\ ret # "GMT_PARSE_ERROR" /\ Ctrl.C_active /\ RLt(Ctrl.C_value, Zero))
           => (ret = "EXIT_SUCCESS" /\ E # <<>> /\ written = <<>>)
    /\ (Ctrl.C_active /\ RLt(Ctrl.C_value, Zero))
           => pc \notin {"svdsolve", "evaluate", "points", "lattice"}
    /\ (pc # "parse" /\ cmd.C.given /\ RLt(cmd.C.value, Zero) /\ cmd.C.file = "NULL")
           => ret = "GMT_PARSE_ERROR"

\* C5: in every mode, undo_gps_normalization applied to the residuals and the
\* coefficients left by do_gps_normalization gives back the u and v of every
\* observation.
C5_RoundTrip ==
    pc = "restored" => \A i \in 1..n : back[i].u = input[i].u /\ back[i].v = input[i].v

\* A round trip through a plane with a slope, with u residuals of a range that
\* is neither 0 nor 1 and v residuals that are all zero.
C5_Witness ==
    /\ pc = "restored"
    /\ normalize = GPS_TREND + GPS_NORM
    /\ norm.slp_ux # Zero
    /\ norm.range_u \notin {Zero, One}
    /\ norm.range_v = Zero

\* The requested points in the order of the table, and the record of point k:
\* its own x and y, and the sum over all sources from zero accumulators.
Requested == Flatten(Nin)
PointRecord(k) == Predict(Requested[k].x, Requested[k].y, X, obs, n, par, normalize, norm)

\* C11: with -N the records written so far are those of the first points of
\* the table, one per point and in its order, each with the point's own x, y
\* and the u, v predicted from accumulators reset to zero; a run that
\* evaluates the field ends with one record for every point.
C11_PointRecords ==
    (Ctrl.N_file # "NULL" /\ pc \in {"points", "done"}) =>
        /\ Len(written) <= Len(Requested)
        /\ \A k \in 1..Len(written) :
              /\ written[k].x = Requested[k].x
              /\ written[k].y = Requested[k].y
              /\ written[k] = PointRecord(k)
        /\ (pc = "done" /\ ret = "EXIT_SUCCESS" /\ ~RLt(Ctrl.C_value, Zero))
               => Len(written) = Len(Requested)

\* All points of a table of two segments are written, with different values
\* at the first two, from coefficients that are not all zero.
C11_Witness ==
    /\ pc = "done" /\ ret = "EXIT_SUCCESS" /\ Ctrl.N_file # "NULL"
    /\ Len(written) = 3
    /\ written[1].u # written[2].u
    /\ ~IsNaN(written[2].u)
    /\ \E k \in DOMAIN obs : obs[k] # Zero

\* The row and the column of node k of the lattice.
RowOf(k) == k \div Len(xp)
ColOf(k) == k % Len(xp)

\* C12: after a run with a mask every node that is NaN in the mask is NaN in
\* the u grid and in the v grid, and every other node of the two grids holds
\* the u and the v predicted at its coordinates, which are not NaN.
C12_MaskedNodes ==
    (pc = "done" /\ ret = "EXIT_SUCCESS" /\ Ctrl.T_file # "NULL" /\ written # <<>>) =>
        \A k \in GridNodes :
            IF IsNaN(mask[k])
            THEN IsNaN(written[1][k]) /\ IsNaN(written[2][k])
            ELSE /\ ~IsNaN(written[1][k]) /\ ~IsNaN(written[2][k])
                 /\ written[1][k] = Stored(Predict(xp[ColOf(k) + 1], yp[RowOf(k) + 1],
                                                   X, obs, n, par, normalize, norm)).u
                 /\ written[2][k] = Stored(Predict(xp[ColOf(k) + 1], yp[RowOf(k) + 1],
                                                   X, obs, n, par, normalize, norm)).v

\* The positions of the run after the matrix is built, and after the solve.
Built == {"solve", "eigen", "svdsolve", "evaluate", "points", "lattice"}
Solved == {"evaluate", "points", "lattice"}

\* C13: once the input has ended no step changes n or X; the matrix built
\* has (2n)^2 entries and the right-hand side and the solution 2n, the
\* first n being alpha_x and the last n alpha_y, for the n rows of X, and
\* the loop over the sources of every output node stays below n.
C13_RetainedFixed ==
    [][(pc \notin {"parse", "read"}) =>
         /\ n' = n
         /\ X' = X
         /\ Len(X') = n
         /\ pc' \in Built => (DOMAIN A' = 0..(4 * n * n - 1) /\ DOMAIN obs' = 0..(2 * n - 1))
         /\ pc' \in Solved => DOMAIN obs' = 0..(2 * n - 1)
         /\ pc' = "lattice" =>
                \A t \in 1..nthreads : thr'[t].pos # "end" => thr'[t].p \in 0..(n - 1)]_vars

\* A thread of the lattice loop is at the second of two sources.
C13_Witness == pc = "lattice" /\ n = 2 /\ Len(X) = 2 /\ \E t \in 1..nthreads : thr[t].p = 1

\* The positions of the run at which par is set.
ParSet == {"normalize", "build"} \cup Built

\* C14: in every run that parse accepts the fudge term par[1] is not
\* negative, the squared radius of the self-coupling term (dx = dy = 0) is
\* strictly positive, and no diagonal entry of the matrix is the result of
\* log(0) or of a division by zero.
C14_FudgePositive ==
    /\ pc \in ParSet =>
           /\ ~RLt(par[2], Zero)
           /\ RLt(Zero, RAdd(RAdd(RMul(Zero, Zero), RMul(Zero, Zero)), par[2]))
    /\ pc \in Built =>
           \A j \in 0..(n - 1) :
               ~IsNaN(A[Gu_ij(n, j, j)]) /\ ~IsNaN(A[Gv_ij(n, j, j)])

\* The right-hand side of the retained observations without their weights.
PlainObs == BuildObs(X, Unweighted(u, X, "u"), Unweighted(v, X, "v"), n, FALSE)

\* C15: under the Gauss-Jordan solver the matrix, the right-hand side and
\* the coefficients of a run with -W are those the same observations give
\* without -W.
C15_WeightsIgnored ==
    (Ctrl.W_active /\ ~Ctrl.C_active) =>
        /\ pc = "solve" => (A = BuildA(X, n, FALSE, par) /\ obs = PlainObs)
        /\ pc = "evaluate" =>
               obs = gmt_gaussjordan(BuildA(X, n, FALSE, par), 2 * n, PlainObs).x

\* The separations of the retained observations at distinct locations, and
\* the shortest of a set of separations.
DistinctPairs ==
    {q \in (1..n) \X (1..n) : X[q[1]].x # X[q[2]].x \/ X[q[1]].y # X[q[2]].y}
Separations == {get_gps_radius(X[q[1]], X[q[2]]) : q \in DistinctPairs}
Shortest(D) == CHOOSE d \in D : \A e \in D : ~RLt(e, d)

\* C16: under -Ff and under the default the fudge term is the factor times
\* the shortest separation found between two points at distinct locations,
\* for every input.
C16_FactorPolicy ==
    (pc \in ParSet /\ Ctrl.F_mode # 1) =>
        /\ Separations # {}
        /\ par[2] = RMul(Ctrl.F_fudge, Shortest(Separations))

\* Offsets between two points, in each coordinate.
Offsets == {RInt(-4), RInt(-3), <<-1, 2>>, Zero, <<1, 2>>, RInt(3), RInt(4)}

\* C17: with the shape parameters of a run whose matrix has been built,
\* evaluate_greensfunctions gives the same triple for (dx, dy) and for
\* (-dx, -dy), for every offset and so for every pair of retained
\* observations taken in either order.
C17_GreensSymmetric ==
    pc = "solve" =>
        /\ \A dx \in Offsets, dy \in Offsets :
               evaluate_greensfunctions(dx, dy, par)
                   = evaluate_greensfunctions(RNeg(dx), RNeg(dy), par)
        /\ \A i \in 1..n, j \in 1..n :
               GreensBetween(get_gps_dxdy(X[i], X[j]), par)
                   = GreensBetween(get_gps_dxdy(X[j], X[i]), par)

\* The matrix of two observations has been built from the Green's functions
\* at an offset with dx and dy both not zero: the cross term is not zero.
C17_Witness ==
    /\ pc = "solve" /\ n = 2
    /\ A[Guv_ij(n, 1, 0)] # Zero /\ ~IsNaN(A[Guv_ij(n, 1, 0)])
    /\ A[Guv_ij(n, 1, 0)] = A[Guv_ij(n, 0, 1)]

\* The four flat indices of the pair (j, i), and the Green's functions and
\* the weights of the pair.
FourIndices(j, i) ==
    {j * (2 * n) + i, j * (2 * n) + i + n, (j + n) * (2 * n) + i, (j + n) * (2 * n) + i + n}
AllIndices == UNION {FourIndices(j, i) : j \in 0..(n - 1), i \in 0..(n - 1)}
PairGreens(j, i) == GreensBetween(get_gps_dxdy(X[i + 1], X[j + 1]), par)
PairWu(j, i) == IF Ctrl.W_active THEN RMul(X[j + 1].wu, X[i + 1].wu) ELSE One
PairWv(j, i) == IF Ctrl.W_active THEN RMul(X[j + 1].wv, X[i + 1].wv) ELSE One

\* C18: in the matrix just built the four indices of every pair (j, i) are
\* within [0, 4n^2) and distinct, no index belongs to two pairs, together
\* they are all of [0, 4n^2), and they hold G_xx at row j, column i, G_xy at
\* row j, column n+i and at row n+j, column i, and G_yy at row n+j, column
\* n+i, each scaled by the weights of the pair.
C18_AssemblyLayout ==
    pc = "solve" =>
        /\ \A j \in 0..(n - 1), i \in 0..(n - 1) :
               /\ FourIndices(j, i) \subseteq 0..(4 * n * n - 1)
               /\ Cardinality(FourIndices(j, i)) = 4
               /\ \A j2 \in 0..(n - 1), i2 \in 0..(n - 1) :
                      (j2 # j \/ i2 # i) => FourIndices(j, i) \cap FourIndices(j2, i2) = {}
               /\ A[j * (2 * n) + i] = RMul(PairWu(j, i), PairGreens(j, i)[1])
               /\ A[j * (2 * n) + i + n] = RMul(PairWu(j, i), PairGreens(j, i)[3])
               /\ A[(j + n) * (2 * n) + i] = RMul(PairWv(j, i), PairGreens(j, i)[3])
               /\ A[(j + n) * (2 * n) + i + n] = RMul(PairWv(j, i), PairGreens(j, i)[2])
        /\ AllIndices = 0..(4 * n * n - 1)
        /\ DOMAIN A = AllIndices

\* The matrix of three observations, two of them at one location, has been
\* built; a G_yy entry and a G_xy entry are not zero.
C18_Witness ==
    /\ pc = "solve" /\ n = 3
    /\ \E j \in 0..2, i \in 0..2 :
           /\ A[(j + n) * (2 * n) + i + n] \notin {Zero, NaN}
           /\ A[j * (2 * n) + i + n] \notin {Zero, NaN}

\* C19: the matrix just built is symmetric, entry (r, c) equals entry (c, r)
\* for all rows r and columns c, for unweighted and for weighted runs.
C19_MatrixSymmetric ==
    pc = "solve" =>
        \A r \in 0..(2 * n - 1), c \in 0..(2 * n - 1) :
            A[r * (2 * n) + c] = A[c * (2 * n) + r]

\* The u and v given to do_gps_normalization, their mean-removed values, and
\* the determinant sxx * syy - sxy * sxy of the locations about their mean.
GivenU == [i \in 1..n |-> input[i].u]
GivenV == [i \in 1..n |-> input[i].v]
MeanRemoved(w) == [i \in 1..n |-> RSub(w[i], RDiv(SumSeq(w, n), RInt(n)))]
DetOf(xx, yy) ==
    RSub(RMul(SumSeq([i \in 1..n |-> RMul(xx[i], xx[i])], n),
              SumSeq([i \in 1..n |-> RMul(yy[i], yy[i])], n)),
         RMul(SumSeq([i \in 1..n |-> RMul(xx[i], yy[i])], n),
              SumSeq([i \in 1..n |-> RMul(xx[i], yy[i])], n)))
Determinant == DetOf(MeanRemoved([i \in 1..n |-> X[i].x]), MeanRemoved([i \in 1..n |-> X[i].y]))
SlopesZero ==
    norm.slp_ux = Zero /\ norm.slp_uy = Zero /\ norm.slp_vx = Zero /\ norm.slp_vy = Zero
\* The residuals w are the values r, divided by their range when the range
\* normalization is requested as well.
ResidualsAre(w, r, range) ==
    IF HasBit(normalize, GPS_NORM)
    THEN /\ range = RMax(RAbs(MinSeq(r, n, DBL_MAX)), RAbs(MaxSeq(r, n, NegDBL_MAX)))
         /\ \A i \in 1..n : w[i] = (IF range = Zero THEN r[i] ELSE RDiv(r[i], range))
    ELSE w = r

C21_BufferInvariant ==
    pc = "read" =>
        /\ n < n_alloc
        /\ Len(X) = n_alloc /\ Len(u) = n_alloc /\ Len(v) = n_alloc
        /\ n_read = n + n_skip

\* The end of a table of three records: two were retained, which doubled the
\* arrays, and one was skipped.
C21_Witness ==
    /\ pc = "read" /\ input = <<>>
    /\ n = GMT_INITIAL_MEM_ROW_ALLOC /\ n_alloc = 2 * GMT_INITIAL_MEM_ROW_ALLOC
    /\ n_skip = 1 /\ n_read = 3

\* C22: from the assignment of the sentinel on, r_min is strictly positive;
\* when the Gauss-Jordan branch is reached the test for a zero r_min is
\* false, and the warning of duplicate data constraints is never reported.
C22_SeparationPositive ==
    /\ (pc # "parse" /\ ret # "GMT_PARSE_ERROR") => RLt(Zero, r_min)
    /\ (pc = "solve" /\ ~Ctrl.C_active) => ~gmt_M_is_zero(r_min)
    /\ ~warned

\* The Gauss-Jordan branch has been taken after a table with an identical
\* record, at zero separation, and a record at another location.
C22_Witness ==
    /\ pc \in {"evaluate", "points", "lattice"} /\ ~Ctrl.C_active
    /\ n_skip > 0 /\ n = 2
    /\ r_min # DBL_MAX
    /\ ~warned

====
